---- MODULE Spec2Model ----
(***************************************************************************)
(* A model of src/src/sparse_matrix.rs: a dictionary-of-keys sparse        *)
(* matrix (SparseMatrix) with a derived compressed-sparse-row cache and a  *)
(* row iterator (RowIterator) that reads the cache.                        *)
(*                                                                         *)
(* Rust vectors are 0-indexed; the sequences below are 1-indexed, so the   *)
(* Rust element v[i] is the element v[i + 1] here.  f64 values are small   *)
(* integers, on which f64 addition and comparison are exact.  Option<T> is *)
(* a sequence of length at most one.  A failed assert! or an out-of-range  *)
(* index panics: the call does not return and the thread unwinds, so no    *)
(* further call is made on the instance (panicked stays TRUE).             *)
(***************************************************************************)
EXTENDS Integers, Sequences, FiniteSets, TLC

\* ------------------------------------------------------------- bounds
\* Largest number of rows and of columns of a constructed matrix.
MaxDim == 2
\* Largest value stored by insert / insert_triplets (values are 0..MaxVal).
MaxVal == 1
\* Largest number of entries the calls on the instance may leave stored.
MaxNnz == 2
\* Longest list handed to insert_triplets.
MaxTriplets == 2

Dims == 0..MaxDim
Values == 0..MaxVal

\* ------------------------------------------------------------- Option
None == <<>>
Some(v) == <<v>>
unwrap_or(opt, default) == IF opt = None THEN default ELSE opt[1]

\* ------------------------------------------------------------- HashMap
\* HashMap<(u64, u64), f64>: a function from the stored keys to values.
EmptyMap == [k \in {} |-> 0]
contains_key(map, k) == k \in DOMAIN map
map_insert(map, k, v) == [x \in (DOMAIN map) \cup {k} |-> IF x = k THEN v ELSE map[x]]
map_remove(map, k) == [x \in (DOMAIN map) \ {k} |-> map[x]]
map_get(map, k) == IF contains_key(map, k) THEN Some(map[k]) ELSE None
map_len(map) == Cardinality(DOMAIN map)
\* HashMap::iter / HashMap::drain visit the keys in an unspecified order:
\* every enumeration of the key set is possible.
IterOrders(map) ==
    LET n == Cardinality(DOMAIN map)
    IN  {s \in [1..n -> DOMAIN map] : \A i, j \in 1..n : i # j => s[i] # s[j]}

\* ------------------------------------------------------------- SparseMatrix
SparseMatrix(shp, vals, upd, rowarr, colarr, dataarr) ==
    [shape |-> shp,
     values |-> vals,
     compressed_updated |-> upd,
     compressed_rowarray |-> rowarr,
     compressed_colarray |-> colarr,
     compressed_dataarray |-> dataarr]

\* Outcome of a call: panic is TRUE when an assert! or an index failed; self is
\* the instance as the call left it; ret is the value returned, if any.
Returned(self, ret) == [panic |-> FALSE, self |-> self, ret |-> ret]
Panicked(self) == [panic |-> TRUE, self |-> self, ret |-> None]

new == SparseMatrix(<<0, 0>>, EmptyMap, FALSE, <<>>, <<>>, <<>>)

\* value_map.reserve((n * m / 4) as usize) sets a capacity only; n * m stays
\* far below 2^64 at the dimensions constructed here.
empty_with_shape(n, m) == SparseMatrix(<<n, m>>, EmptyMap, FALSE, <<>>, <<>>, <<>>)

\* insert with the key written as (col, row).
insert_swapped(self, row, col, value) ==
    IF row < self.shape[1] /\ col < self.shape[2]
    THEN Returned([self EXCEPT !.values = map_insert(@, <<col, row>>, value),
                               !.compressed_updated = FALSE], None)
    ELSE Panicked(self)

insert(self, row, col, value) ==
    IF row < self.shape[1] /\ col < self.shape[2]
    THEN Returned([self EXCEPT !.values = map_insert(@, <<row, col>>, value),
                               !.compressed_updated = FALSE], None)
    ELSE Panicked(self)

\* The loop of identity leaving out the last diagonal cell.
RECURSIVE identity_loop_short(_, _, _)
identity_loop_short(local, diag_idx, n) ==
    IF diag_idx + 1 >= n THEN local
    ELSE identity_loop_short(insert(local, diag_idx, diag_idx, 1).self, diag_idx + 1, n)

RECURSIVE identity_loop(_, _, _)
identity_loop(local, diag_idx, n) ==
    IF diag_idx >= n THEN local
    ELSE identity_loop(insert(local, diag_idx, diag_idx, 1).self, diag_idx + 1, n)

identity(n) == identity_loop(empty_with_shape(n, n), 0, n)

\* The loop of insert_triplets applying the list from its end.
RECURSIVE insert_triplets_loop_reversed(_, _)
insert_triplets_loop_reversed(self, triplets) ==
    IF triplets = <<>> THEN Returned(self, None)
    ELSE LET t == triplets[Len(triplets)]
         IN  IF t[1] < self.shape[1] /\ t[2] < self.shape[2]
             THEN insert_triplets_loop_reversed(
                      [self EXCEPT !.values = map_insert(@, <<t[1], t[2]>>, t[3])],
                      SubSeq(triplets, 1, Len(triplets) - 1))
             ELSE Panicked(self)

\* The loop of insert_triplets checking only the row of each triplet.
RECURSIVE insert_triplets_loop_rowcheck(_, _)
insert_triplets_loop_rowcheck(self, triplets) ==
    IF triplets = <<>> THEN Returned(self, None)
    ELSE LET t == Head(triplets)
         IN  IF t[1] < self.shape[1]
             THEN insert_triplets_loop_rowcheck(
                      [self EXCEPT !.values = map_insert(@, <<t[1], t[2]>>, t[3])],
                      Tail(triplets))
             ELSE Panicked(self)

\* The loop of insert_triplets over the rest of the list: the first triplet out
\* of bounds panics and leaves what the earlier ones stored.
RECURSIVE insert_triplets_loop(_, _)
insert_triplets_loop(self, triplets) ==
    IF triplets = <<>> THEN Returned(self, None)
    ELSE LET t == Head(triplets)
         IN  IF t[1] < self.shape[1] /\ t[2] < self.shape[2]
             THEN insert_triplets_loop(
                      [self EXCEPT !.values = map_insert(@, <<t[1], t[2]>>, t[3])],
                      Tail(triplets))
             ELSE Panicked(self)

insert_triplets(self, triplets) ==
    LET out == insert_triplets_loop(self, triplets)
    IN  IF out.panic THEN out
        ELSE Returned([out.self EXCEPT !.compressed_updated = FALSE], None)

\* clear_at that reads the entry instead of removing it.
clear_at_keep(self, row, col) ==
    IF row < self.shape[1] /\ col < self.shape[2]
    THEN Returned([self EXCEPT !.compressed_updated = FALSE],
                  map_get(self.values, <<row, col>>))
    ELSE Panicked(self)

\* clear_at that invalidates the cache only when it removed an entry.
clear_at_lazy(self, row, col) ==
    IF row < self.shape[1] /\ col < self.shape[2]
    THEN Returned([self EXCEPT !.compressed_updated =
                                   IF contains_key(self.values, <<row, col>>)
                                   THEN FALSE ELSE @,
                               !.values = map_remove(@, <<row, col>>)],
                  map_get(self.values, <<row, col>>))
    ELSE Panicked(self)

clear_at(self, row, col) ==
    IF row < self.shape[1] /\ col < self.shape[2]
    THEN Returned([self EXCEPT !.compressed_updated = FALSE,
                               !.values = map_remove(@, <<row, col>>)],
                  map_get(self.values, <<row, col>>))
    ELSE Panicked(self)

\* peek_at asserting the row bound only.
peek_at_rowcheck(self, row, col) ==
    IF row < self.shape[1]
    THEN Returned(self, map_get(self.values, <<row, col>>))
    ELSE Panicked(self)

peek_at(self, row, col) ==
    IF row < self.shape[1] /\ col < self.shape[2]
    THEN Returned(self, map_get(self.values, <<row, col>>))
    ELSE Panicked(self)

\* num_nonzero counting the entries of the compressed view.
num_nonzero_cached(self) == Len(self.compressed_dataarray)

num_nonzero(self) == map_len(self.values)

\* The re-keying loop writing the key (col, col).
RECURSIVE rekey_loop_colcol(_, _, _)
rekey_loop_colcol(vals, drained, ord) ==
    IF ord = <<>> THEN vals
    ELSE LET k == Head(ord)
         IN  rekey_loop_colcol(map_insert(vals, <<k[2], k[2]>>, drained[k]), drained,
                               Tail(ord))

\* The re-keying loop of transpose_inplace over the drained triplets.
RECURSIVE rekey_loop(_, _, _)
rekey_loop(vals, drained, ord) ==
    IF ord = <<>> THEN vals
    ELSE LET k == Head(ord)
         IN  rekey_loop(map_insert(vals, <<k[2], k[1]>>, drained[k]), drained, Tail(ord))

\* transpose_inplace that leaves the shape as it was.
transpose_inplace_noshape(self, ord) ==
    Returned([self EXCEPT !.values = rekey_loop(EmptyMap, self.values, ord),
                          !.compressed_updated = FALSE], None)

\* transpose_inplace that also empties the compressed arrays.
transpose_inplace_clearcache(self, ord) ==
    Returned([self EXCEPT !.shape = <<self.shape[2], self.shape[1]>>,
                          !.values = rekey_loop(EmptyMap, self.values, ord),
                          !.compressed_rowarray = <<>>,
                          !.compressed_colarray = <<>>,
                          !.compressed_dataarray = <<>>,
                          !.compressed_updated = FALSE], None)

\* ord is the order in which self.values.drain() hands out the entries.
transpose_inplace(self, ord) ==
    Returned([self EXCEPT !.shape = <<self.shape[2], self.shape[1]>>,
                          !.values = rekey_loop(EmptyMap, self.values, ord),
                          !.compressed_updated = FALSE], None)

\* The loop of create_transpose inserting at (row, col).
RECURSIVE create_transpose_loop_noswap(_, _, _)
create_transpose_loop_noswap(local, vals, ord) ==
    IF ord = <<>> THEN Returned(local, None)
    ELSE LET k == Head(ord)
             ins == insert(local, k[1], k[2], vals[k])
         IN  IF ins.panic THEN ins
             ELSE create_transpose_loop_noswap(ins.self, vals, Tail(ord))

\* The loop of create_transpose: local.insert(col, row, val) per entry.
RECURSIVE create_transpose_loop(_, _, _)
create_transpose_loop(local, vals, ord) ==
    IF ord = <<>> THEN Returned(local, None)
    ELSE LET k == Head(ord)
             ins == insert(local, k[2], k[1], vals[k])
         IN  IF ins.panic THEN ins
             ELSE create_transpose_loop(ins.self, vals, Tail(ord))

\* ord is the order in which self.values.iter() visits the keys.
create_transpose(self, ord) ==
    LET out == create_transpose_loop(empty_with_shape(self.shape[2], self.shape[1]),
                                     self.values, ord)
    IN  IF out.panic THEN Panicked(self) ELSE Returned(self, Some(out.self))

\* #[derive(Clone)]: a field-by-field copy.
clone(self) == self

\* The loop of add storing the entry of other instead of the sum.
RECURSIVE add_loop_overwrite(_, _, _)
add_loop_overwrite(local, vals, ord) ==
    IF ord = <<>> THEN Returned(local, None)
    ELSE LET k == Head(ord)
             ins == insert(local, k[1], k[2], vals[k])
         IN  IF ins.panic THEN ins
             ELSE add_loop_overwrite(ins.self, vals, Tail(ord))

\* The loop of add dropping an entry whose sum is zero.
RECURSIVE add_loop_prune(_, _, _)
add_loop_prune(local, vals, ord) ==
    IF ord = <<>> THEN Returned(local, None)
    ELSE LET k == Head(ord)
             peeked == peek_at(local, k[1], k[2])
             existingval == unwrap_or(peeked.ret, 0)
             ins == IF existingval + vals[k] = 0
                    THEN Returned([local EXCEPT !.values = map_remove(@, k),
                                                !.compressed_updated = FALSE], None)
                    ELSE insert(local, k[1], k[2], existingval + vals[k])
         IN  IF peeked.panic THEN Panicked(local)
             ELSE IF ins.panic THEN ins
             ELSE add_loop_prune(ins.self, vals, Tail(ord))

\* The loop of add over the entries of other.
RECURSIVE add_loop(_, _, _)
add_loop(local, vals, ord) ==
    IF ord = <<>> THEN Returned(local, None)
    ELSE LET k == Head(ord)
             peeked == peek_at(local, k[1], k[2])
             existingval == unwrap_or(peeked.ret, 0)
             ins == insert(local, k[1], k[2], existingval + vals[k])
         IN  IF peeked.panic THEN Panicked(local)
             ELSE IF ins.panic THEN ins
             ELSE add_loop(ins.self, vals, Tail(ord))

\* add comparing the row counts only.
add_rowcheck(self, other, ord) ==
    IF self.shape[1] # other.shape[1] THEN Panicked(self)
    ELSE LET out == add_loop(clone(self), other.values, ord)
         IN  IF out.panic THEN Panicked(self) ELSE Returned(self, Some(out.self))

\* ord is the order in which other.values.iter() visits the keys.
add(self, other, ord) ==
    IF self.shape # other.shape THEN Panicked(self)
    ELSE LET out == add_loop(clone(self), other.values, ord)
         IN  IF out.panic THEN Panicked(self) ELSE Returned(self, Some(out.self))

\* ------------------------------------------------------------- _update_compressed
\* row_vecs[row]: the (col, val) pairs of one row, pushed in iteration order.
RECURSIVE row_vec(_, _, _)
row_vec(vals, ord, row) ==
    IF ord = <<>> THEN <<>>
    ELSE LET k == Head(ord)
         IN  (IF k[1] = row THEN << <<k[2], vals[k]>> >> ELSE <<>>)
             \o row_vec(vals, Tail(ord), row)

\* sort_by(|a, b| a.0.cmp(&b.0)): a stable sort on the column, as an insertion
\* sort (any stable sort returns the same sequence).
RECURSIVE sort_insert(_, _)
sort_insert(sorted, x) ==
    IF sorted = <<>> THEN <<x>>
    ELSE IF Head(sorted)[1] <= x[1]
         THEN <<Head(sorted)>> \o sort_insert(Tail(sorted), x)
         ELSE <<x>> \o sorted

\* The rows left in iteration order.
sort_by_col_skipped(v) == v

RECURSIVE sort_by_col(_)
sort_by_col(v) ==
    IF v = <<>> THEN <<>>
    ELSE sort_insert(sort_by_col(SubSeq(v, 1, Len(v) - 1)), v[Len(v)])

\* The push loop over row_vecs, from row rowidx on, onto the three arrays acc.
RECURSIVE push_rows(_, _, _, _, _)
push_rows(vals, ord, rowidx, nrows, acc) ==
    IF rowidx >= nrows THEN acc
    ELSE LET row == sort_by_col(row_vec(vals, ord, rowidx))
             cols == acc.col \o [i \in 1..Len(row) |-> row[i][1]]
             data == acc.data \o [i \in 1..Len(row) |-> row[i][2]]
         IN  push_rows(vals, ord, rowidx + 1, nrows,
                       [row |-> Append(acc.row, Len(data)), col |-> cols, data |-> data])

\* _update_compressed without the three clear() calls: it appends to the arrays.
update_compressed_noclear(self, ord) ==
    LET acc == push_rows(self.values, ord, 0, self.shape[1],
                         [row |-> Append(self.compressed_rowarray, 0),
                          col |-> self.compressed_colarray,
                          data |-> self.compressed_dataarray])
    IN  Returned([self EXCEPT !.compressed_rowarray = acc.row,
                              !.compressed_colarray = acc.col,
                              !.compressed_dataarray = acc.data,
                              !.compressed_updated = TRUE], None)

\* ord is the order in which self.values.iter() visits the keys.  A key whose
\* row is not below shape.0 makes row_vecs[*row as usize] panic, after the
\* three arrays were cleared.
update_compressed(self, ord) ==
    IF \E k \in DOMAIN self.values : k[1] >= self.shape[1]
    THEN Panicked([self EXCEPT !.compressed_rowarray = <<>>,
                               !.compressed_colarray = <<>>,
                               !.compressed_dataarray = <<>>])
    ELSE LET acc == push_rows(self.values, ord, 0, self.shape[1],
                              [row |-> <<0>>, col |-> <<>>, data |-> <<>>])
         IN  Returned([self EXCEPT !.compressed_rowarray = acc.row,
                                   !.compressed_colarray = acc.col,
                                   !.compressed_dataarray = acc.data,
                                   !.compressed_updated = TRUE], None)

\* ------------------------------------------------------------- RowIterator
\* for (col, val) in zip(colslice, dataslice) { retvec[*col as usize] = *val; }
\* zip stops at the shorter slice; a column not below the row width panics.
RECURSIVE scatter(_, _, _)
scatter(retvec, colslice, dataslice) ==
    IF colslice = <<>> \/ dataslice = <<>> THEN [panic |-> FALSE, retvec |-> retvec]
    ELSE IF Head(colslice) >= Len(retvec) THEN [panic |-> TRUE, retvec |-> retvec]
    ELSE scatter([retvec EXCEPT ![Head(colslice) + 1] = Head(dataslice)],
                 Tail(colslice), Tail(dataslice))

\* next bounding the row index by the column count.
next_bycols(matrix, row_iter_idx) ==
    LET rowarr == matrix.compressed_rowarray
        colarr == matrix.compressed_colarray
        dataarr == matrix.compressed_dataarray
        failed == [panic |-> TRUE, ret |-> None, idx |-> row_iter_idx]
    IN  IF row_iter_idx < matrix.shape[2]
        THEN IF row_iter_idx + 2 > Len(rowarr) THEN failed
             ELSE LET start == rowarr[row_iter_idx + 1]
                      end == rowarr[row_iter_idx + 2]
                  IN  IF start > end \/ end > Len(colarr) \/ end > Len(dataarr)
                      THEN failed
                      ELSE LET out == scatter([i \in 1..matrix.shape[2] |-> 0],
                                              SubSeq(colarr, start + 1, end),
                                              SubSeq(dataarr, start + 1, end))
                           IN  IF out.panic THEN failed
                               ELSE [panic |-> FALSE, ret |-> Some(out.retvec),
                                     idx |-> row_iter_idx + 1]
        ELSE [panic |-> FALSE, ret |-> None, idx |-> row_iter_idx]

\* RowIterator::next on the iterator (matrix, row_iter_idx); idx is the
\* iterator's row_iter_idx after the call.
next(matrix, row_iter_idx) ==
    LET rowarr == matrix.compressed_rowarray
        colarr == matrix.compressed_colarray
        dataarr == matrix.compressed_dataarray
        failed == [panic |-> TRUE, ret |-> None, idx |-> row_iter_idx]
    IN  IF row_iter_idx < matrix.shape[1]
        THEN IF row_iter_idx + 2 > Len(rowarr) THEN failed
             ELSE LET start == rowarr[row_iter_idx + 1]
                      end == rowarr[row_iter_idx + 2]
                  IN  IF start > end \/ end > Len(colarr) \/ end > Len(dataarr)
                      THEN failed
                      ELSE LET out == scatter([i \in 1..matrix.shape[2] |-> 0],
                                              SubSeq(colarr, start + 1, end),
                                              SubSeq(dataarr, start + 1, end))
                           IN  IF out.panic THEN failed
                               ELSE [panic |-> FALSE, ret |-> Some(out.retvec),
                                     idx |-> row_iter_idx + 1]
        ELSE [panic |-> FALSE, ret |-> None, idx |-> row_iter_idx]

\* ------------------------------------------------------------- inputs
\* Lists handed to insert_triplets on a matrix of shape shp: positions in bounds
\* and one step beyond each bound.
\* The value of a triplet that is out of bounds is never read: one value stands
\* for all of them.
Triplets(shp) ==
    {t \in (0..shp[1]) \X (0..shp[2]) \X Values :
        (t[1] < shp[1] /\ t[2] < shp[2]) \/ t[3] = 0}
TripletLists(shp) == UNION {[1..n -> Triplets(shp)] : n \in 0..MaxTriplets}

\* Right operands of an addition: matrices as a constructor and inserts leave
\* them, storing values of -MaxVal..MaxVal in at most MaxNnz cells.  add reads
\* only the shape and the entries of its right operand.
OperandValues == -MaxVal..MaxVal
Cells(shp) == (0..shp[1] - 1) \X (0..shp[2] - 1)
Operands ==
    UNION {UNION {{SparseMatrix(shp, vals, FALSE, <<>>, <<>>, <<>>) :
                      vals \in [keys -> OperandValues]} :
                  keys \in {K \in SUBSET Cells(shp) : Cardinality(K) <= MaxNnz}} :
           shp \in Dims \X Dims}

\* ------------------------------------------------------------- state
VARIABLES
    m,          \* the SparseMatrix instance the calls are made on
    iter,       \* Some(row_iter_idx) of the live RowIterator on m, or None
    yielded,    \* the rows the last row iteration has yielded so far
    pre,        \* m as it was when the last call was made
    op,         \* the last call made
    args,       \* its arguments
    ret,        \* the value it returned
    panicked    \* TRUE once a call panicked

vars == <<m, iter, yielded, pre, op, args, ret, panicked>>

Init ==
    /\ \/ /\ m = new
          /\ op = "new"
          /\ args = <<>>
       \/ \E n \in Dims, k \in Dims :
              /\ m = empty_with_shape(n, k)
              /\ op = "empty_with_shape"
              /\ args = <<n, k>>
       \/ \E n \in Dims :
              /\ m = identity(n)
              /\ op = "identity"
              /\ args = <<n>>
    /\ pre = m
    /\ iter = None
    /\ yielded = <<>>
    /\ ret = None
    /\ panicked = FALSE

\* A call can be made on the instance: no call panicked, no RowIterator borrows
\* it (the for loops of lines 208 and 310 consume the iterator whole), and the
\* caller is done with the previous call.
Callable == ~panicked /\ iter = None /\ op = "idle"

\* A call named name with arguments a, whose outcome is out.
Call(name, a, out) ==
    /\ m' = out.self
    /\ pre' = m
    /\ op' = name
    /\ args' = a
    /\ ret' = out.ret
    /\ panicked' = out.panic
    /\ iter' = None
    /\ yielded' = <<>>

Insert(row, col, value) ==
    /\ Callable
    /\ LET out == insert(m, row, col, value)
       IN  /\ num_nonzero(out.self) <= MaxNnz
           /\ Call("insert", <<row, col, value>>, out)

InsertTriplets(triplets) ==
    /\ Callable
    /\ LET out == insert_triplets(m, triplets)
       IN  /\ num_nonzero(out.self) <= MaxNnz
           /\ Call("insert_triplets", <<triplets>>, out)

ClearAt(row, col) ==
    /\ Callable
    /\ Call("clear_at", <<row, col>>, clear_at(m, row, col))

PeekAt(row, col) ==
    /\ Callable
    /\ Call("peek_at", <<row, col>>, peek_at(m, row, col))

NumNonzero ==
    /\ Callable
    /\ Call("num_nonzero", <<>>, Returned(m, Some(num_nonzero(m))))

TransposeInplace ==
    /\ Callable
    /\ \E ord \in IterOrders(m.values) :
           Call("transpose_inplace", <<>>, transpose_inplace(m, ord))

UpdateCompressed ==
    /\ Callable
    /\ \E ord \in IterOrders(m.values) :
           Call("_update_compressed", <<>>, update_compressed(m, ord))

CreateTranspose ==
    /\ Callable
    /\ \E ord \in IterOrders(m.values) :
           Call("create_transpose", <<>>, create_transpose(m, ord))

Clone ==
    /\ Callable
    /\ Call("clone", <<>>, Returned(m, Some(clone(m))))

Add(other) ==
    /\ Callable
    /\ \E ord \in IterOrders(other.values) :
           Call("add", <<other>>, add(m, other, ord))

\* row_iter(): a new iterator at row 0, borrowing m.
RowIter ==
    /\ Callable
    /\ iter' = Some(0)
    /\ yielded' = <<>>
    /\ pre' = m
    /\ op' = "row_iter"
    /\ args' = <<>>
    /\ ret' = None
    /\ UNCHANGED <<m, panicked>>

\* One next() of the for loop over the live iterator; the loop drops the
\* iterator when next() returns None.
IterNext ==
    /\ ~panicked
    /\ iter # None
    /\ LET out == next(m, iter[1])
       IN  /\ panicked' = out.panic
           /\ ret' = out.ret
           /\ iter' = IF ~out.panic /\ out.ret = None THEN None ELSE Some(out.idx)
           /\ yielded' = IF out.ret = None THEN yielded ELSE Append(yielded, out.ret[1])
    /\ pre' = m
    /\ op' = "next"
    /\ args' = <<>>
    /\ UNCHANGED m

\* The caller is done with the last call: only the record of it is dropped,
\* the instance is as the call left it.
Discard ==
    /\ ~panicked
    /\ iter = None
    /\ op # "idle"
    /\ op' = "idle"
    /\ args' = <<>>
    /\ ret' = None
    /\ pre' = m
    /\ yielded' = <<>>
    /\ UNCHANGED <<m, iter, panicked>>

Next ==
    \/ \E row \in 0..m.shape[1], col \in 0..m.shape[2], value \in Values :
           Insert(row, col, value)
    \/ \E triplets \in TripletLists(m.shape) : InsertTriplets(triplets)
    \/ \E row \in 0..m.shape[1], col \in 0..m.shape[2] : ClearAt(row, col)
    \/ \E row \in 0..m.shape[1], col \in 0..m.shape[2] : PeekAt(row, col)
    \/ NumNonzero
    \/ TransposeInplace
    \/ UpdateCompressed
    \/ CreateTranspose
    \/ Clone
    \/ \E other \in Operands : Add(other)
    \/ RowIter
    \/ IterNext
    \/ Discard

Spec == Init /\ [][Next]_vars

\* ------------------------------------------------------------- reading a matrix
\* What the claims say about a matrix M, stated on its fields.
StoredAt(M, r, c) == <<r, c>> \in DOMAIN M.values
ValueAt(M, r, c) == IF StoredAt(M, r, c) THEN Some(M.values[<<r, c>>]) ELSE None
OtherCells(M, r, c) == Cells(M.shape) \ {<<r, c>>}
SameElsewhere(M, N, r, c) ==
    \A k \in OtherCells(N, r, c) :
        peek_at(M, k[1], k[2]).ret = peek_at(N, k[1], k[2]).ret

\* The (column, value) pairs stored in row r of M.
RowPairs(M, r) ==
    {<<k[2], M.values[k]>> : k \in {x \in DOMAIN M.values : x[1] = r}}

\* The three arrays of M are the CSR encoding of its store and shape.
IsCSR(M) ==
    LET rowarr == M.compressed_rowarray
        colarr == M.compressed_colarray
        dataarr == M.compressed_dataarray
    IN  /\ Len(rowarr) = M.shape[1] + 1
        /\ rowarr[1] = 0
        /\ Len(colarr) = Len(dataarr)
        /\ rowarr[Len(rowarr)] = Len(colarr)
        /\ \A r \in 0..M.shape[1] - 1 :
               LET start == rowarr[r + 1]
                   end == rowarr[r + 2]
               IN  /\ start <= end
                   /\ end <= Len(colarr)
                   /\ {<<colarr[i], dataarr[i]>> : i \in start + 1..end} = RowPairs(M, r)
                   /\ \A i, j \in start + 1..end : i < j => colarr[i] < colarr[j]

\* ------------------------------------------------------------- claims

\* C1: a successful insert(r, c, v) leaves the previous store with (r, c)
\* mapped to v: peek_at(r, c) returns v, every other in-bounds cell reads as
\* before, and the shape is unchanged.
C1_InsertSetsCell ==
    (op = "insert" /\ ~panicked) =>
        LET r == args[1]
            c == args[2]
            v == args[3]
        IN  /\ peek_at(m, r, c) = Returned(m, Some(v))
            /\ DOMAIN m.values = DOMAIN pre.values \cup {<<r, c>>}
            /\ SameElsewhere(m, pre, r, c)
            /\ m.shape = pre.shape

\* An insert that overwrote a different value while another cell was stored.
C1_Witness ==
    /\ op = "insert"
    /\ ~panicked
    /\ StoredAt(pre, args[1], args[2])
    /\ ValueAt(pre, args[1], args[2]) # Some(args[3])
    /\ \E k \in OtherCells(pre, args[1], args[2]) : StoredAt(pre, k[1], k[2])

\* C2: clear_at(r, c) in bounds returns the value stored at (r, c) and removes
\* it, or returns absent when nothing is stored; afterwards peek_at(r, c) is
\* absent and a second clear_at(r, c) returns absent; the other cells and the
\* shape are unchanged.
C2_ClearAtRemoves ==
    (op = "clear_at" /\ ~panicked) =>
        LET r == args[1]
            c == args[2]
        IN  /\ ret = ValueAt(pre, r, c)
            /\ peek_at(m, r, c) = Returned(m, None)
            /\ clear_at(m, r, c).ret = None
            /\ ~clear_at(m, r, c).panic
            /\ DOMAIN m.values = DOMAIN pre.values \ {<<r, c>>}
            /\ SameElsewhere(m, pre, r, c)
            /\ m.shape = pre.shape

\* A clear_at that removed a stored value and left another cell stored.
C2_Witness ==
    /\ op = "clear_at"
    /\ ~panicked
    /\ ret # None
    /\ StoredAt(pre, args[1], args[2])
    /\ m.values # EmptyMap

\* C3: after _update_compressed the fresh flag is true and the three arrays are
\* the CSR encoding of the current store: shape.0 + 1 row offsets starting at 0,
\* each row slice holding exactly that row's (c, v) pairs, columns strictly
\* ascending.
C3_RebuildIsCSR ==
    (op = "_update_compressed") =>
        /\ ~panicked
        /\ m.compressed_updated
        /\ IsCSR(m)
        /\ m.values = pre.values
        /\ m.shape = pre.shape

\* A rebuild of a matrix with two entries in one row and a later empty row.
C3_Witness ==
    /\ op = "_update_compressed"
    /\ ~panicked
    /\ m.shape = <<2, 2>>
    /\ Cardinality(RowPairs(m, 0)) = 2
    /\ m.compressed_rowarray = <<0, 2, 2>>

\* C4: in every reachable state, also the one a call that failed part-way left
\* behind, a true fresh flag means the compressed arrays describe the current
\* store and shape (of the instance and of a matrix a call returned).
C4_FreshMeansCurrent ==
    /\ m.compressed_updated => IsCSR(m)
    /\ (op \in {"create_transpose", "clone", "add"} /\ ret # None) =>
           (ret[1].compressed_updated => IsCSR(ret[1]))

\* What does hold: the same, in the states no call has panicked in.
FreshMeansCurrentUnlessPanicked == panicked \/ C4_FreshMeansCurrent

\* C5: every insert, insert_triplets, clear_at and transpose_inplace call that
\* returns has set the fresh flag to false, whatever it was before.
C5_MutationInvalidates ==
    (op \in {"insert", "insert_triplets", "clear_at", "transpose_inplace"} /\ ~panicked) =>
        ~m.compressed_updated

\* A clear_at of a cell that holds no entry, on a matrix whose flag was true.
C5_Witness ==
    /\ op = "clear_at"
    /\ ~panicked
    /\ ret = None
    /\ pre.compressed_updated
    /\ pre.values # EmptyMap

\* The dense row r of M: element c is the value stored at (r, c), or 0.
DenseRow(M, r) == [i \in 1..M.shape[2] |-> unwrap_or(ValueAt(M, r, i - 1), 0)]

\* C6: when the compressed view is fresh, row iteration yields exactly shape.0
\* vectors in ascending row order and then end-of-sequence; the r-th vector has
\* length shape.1 and holds the stored values, 0 where nothing is stored.
C6_FreshRowIter ==
    (op = "next" /\ m.compressed_updated) =>
        /\ ~panicked
        /\ Len(yielded) <= m.shape[1]
        /\ \A i \in 1..Len(yielded) : yielded[i] = DenseRow(m, i - 1)
        /\ (ret = None) <=> (iter = None)
        /\ (ret = None) => Len(yielded) = m.shape[1]
        /\ (ret # None) => ret[1] = yielded[Len(yielded)]

\* A finished iteration over a fresh 2 x 2 matrix storing a 1 and an explicit 0.
C6_Witness ==
    /\ op = "next"
    /\ ret = None
    /\ m.compressed_updated
    /\ m.shape = <<2, 2>>
    /\ \E k \in DOMAIN m.values : k[1] = 1 /\ m.values[k] = 1
    /\ Len(yielded) = 2
    /\ yielded[1] # yielded[2]

\* C7: row iteration over a stale compressed view does not fail.
C7_StaleRowIterNoPanic ==
    (op = "next" /\ ~m.compressed_updated) => ~panicked

\* The entries of the sum of L and R, an absent operand cell counting as 0.
SumAt(L, R, k) == unwrap_or(ValueAt(L, k[1], k[2]), 0) + unwrap_or(ValueAt(R, k[1], k[2]), 0)

\* C8: for L and R of identical shape, L + R is a new matrix of that shape in
\* which every cell stored in L or in R holds left + right (absent counting as
\* 0) and every other cell is absent; L is unchanged.
C8_AddIsCellwiseSum ==
    (op = "add" /\ pre.shape = args[1].shape) =>
        /\ ~panicked
        /\ ret # None
        /\ ret[1].shape = pre.shape
        /\ DOMAIN ret[1].values = DOMAIN pre.values \cup DOMAIN args[1].values
        /\ \A k \in DOMAIN ret[1].values : ret[1].values[k] = SumAt(pre, args[1], k)
        /\ m = pre

\* An addition with a cell stored only in L, one in both and one only in R.
C8_Witness ==
    /\ op = "add"
    /\ ~panicked
    /\ (DOMAIN pre.values) \ (DOMAIN args[1].values) # {}
    /\ (DOMAIN args[1].values) \ (DOMAIN pre.values) # {}
    /\ \E k \in (DOMAIN pre.values) \cap (DOMAIN args[1].values) : pre.values[k] # 0

\* C9: adding matrices whose shapes differ in either component fails, produces
\* no result matrix and leaves the operands unchanged.
C9_AddShapeMismatchFails ==
    (op = "add" /\ pre.shape # args[1].shape) =>
        /\ panicked
        /\ ret = None
        /\ m = pre

\* A failed addition of a matrix with entries and a (0, 0) matrix, and one of
\* two matrices with entries that differ in the column count only.
C9_Witness ==
    /\ op = "add"
    /\ panicked
    /\ pre.values # EmptyMap
    /\ \/ args[1].shape = <<0, 0>>
       \/ /\ args[1].shape[1] = pre.shape[1]
          /\ args[1].values # EmptyMap

\* C10: create_transpose returns a new matrix of shape (cols, rows) that stores
\* v at (c, r) exactly when M stores v at (r, c); M is unchanged.
C10_CreateTranspose ==
    (op = "create_transpose") =>
        /\ ~panicked
        /\ ret # None
        /\ ret[1].shape = <<pre.shape[2], pre.shape[1]>>
        /\ DOMAIN ret[1].values = {<<k[2], k[1]>> : k \in DOMAIN pre.values}
        /\ \A k \in DOMAIN pre.values : ret[1].values[<<k[2], k[1]>>] = pre.values[k]
        /\ m = pre

\* A transpose of a fresh non-square matrix with an off-diagonal entry.
C10_Witness ==
    /\ op = "create_transpose"
    /\ ~panicked
    /\ pre.shape[1] # pre.shape[2]
    /\ pre.compressed_updated
    /\ \E k \in DOMAIN pre.values : k[1] # k[2]

\* M and N have the same shape and the same set of (r, c, v) triples.
SameMatrix(M, N) == M.shape = N.shape /\ M.values = N.values

\* The triples of M with row and column exchanged.
Transposed(vals) ==
    [k \in {<<x[2], x[1]>> : x \in DOMAIN vals} |-> vals[<<k[2], k[1]>>]]

\* C11: for every reachable matrix M, create_transpose(create_transpose(M)) has
\* the shape and the triples of M, and two successive transpose_inplace calls
\* restore M's shape and triples.
C11_TransposeRoundTrip ==
    /\ \A o1 \in IterOrders(m.values) :
           LET once == create_transpose(m, o1)
           IN  /\ ~once.panic
               /\ \A o2 \in IterOrders(once.ret[1].values) :
                      LET twice == create_transpose(once.ret[1], o2)
                      IN  ~twice.panic /\ SameMatrix(twice.ret[1], m)
    /\ (op = "transpose_inplace") =>
           \A o2 \in IterOrders(m.values) :
               LET twice == transpose_inplace(m, o2)
               IN  ~twice.panic /\ SameMatrix(twice.self, pre)

\* A transpose_inplace of a non-square matrix with two entries, one of them
\* off the diagonal.
C11_Witness ==
    /\ op = "transpose_inplace"
    /\ ~panicked
    /\ pre.shape = <<1, 2>>
    /\ m.shape = <<2, 1>>
    /\ num_nonzero(pre) = 2
    /\ pre.values[<<0, 0>>] # pre.values[<<0, 1>>]

\* C12: after M.transpose_inplace() the instance has the shape and the triples
\* of the matrix create_transpose would have returned for M before the call;
\* no entry is lost or merged, so num_nonzero() is unchanged.
C12_InplaceAgreesWithCreate ==
    (op = "transpose_inplace") =>
        /\ ~panicked
        /\ \A ord \in IterOrders(pre.values) :
               LET created == create_transpose(pre, ord)
               IN  ~created.panic /\ SameMatrix(m, created.ret[1])
        /\ m.shape = <<pre.shape[2], pre.shape[1]>>
        /\ m.values = Transposed(pre.values)
        /\ num_nonzero(m) = num_nonzero(pre)

\* A transpose_inplace of a 2 x 2 matrix storing (0, 1) and (1, 1): the keys
\* share a column, so a re-keying that merged them would lose one.
C12_Witness ==
    /\ op = "transpose_inplace"
    /\ ~panicked
    /\ DOMAIN pre.values = {<<0, 1>>, <<1, 1>>}
    /\ pre.shape = <<2, 2>>

\* C13: identity(n) has shape (n, n), n entries, 1 at every (i, i) and nothing
\* stored off the diagonal.
C13_Identity ==
    (op = "identity") =>
        LET n == args[1]
        IN  /\ m.shape = <<n, n>>
            /\ num_nonzero(m) = n
            /\ \A i \in 0..n - 1 : peek_at(m, i, i) = Returned(m, Some(1))
            /\ \A i, j \in 0..n - 1 : i # j => peek_at(m, i, j) = Returned(m, None)

\* The identity matrix of the largest dimension constructed.
C13_Witness ==
    /\ op = "identity"
    /\ args = <<MaxDim>>
    /\ num_nonzero(m) = MaxDim
    /\ MaxDim >= 2

\* (row, col) is not a cell of a matrix of shape shp.
OutOfBounds(shp, row, col) == row >= shp[1] \/ col >= shp[2]

\* C14: insert, clear_at and peek_at with row >= nrows or col >= ncols fail
\* and change nothing: entries, shape, compressed arrays and freshness flag are
\* as before the call.  On new(), of shape (0, 0), every such call fails.
C14_OutOfBoundsFailsUnchanged ==
    /\ (op \in {"insert", "clear_at", "peek_at"}
            /\ OutOfBounds(pre.shape, args[1], args[2])) =>
           panicked /\ m = pre /\ ret = None
    /\ \A row \in 0..MaxDim + 1, col \in 0..MaxDim + 1 :
           OutOfBounds(m.shape, row, col) =>
               /\ \A value \in Values : insert(m, row, col, value) = Panicked(m)
               /\ clear_at(m, row, col) = Panicked(m)
               /\ peek_at(m, row, col) = Panicked(m)
    /\ (m.shape = <<0, 0>>) =>
           \A row \in Dims, col \in Dims :
               /\ insert(m, row, col, 1).panic
               /\ clear_at(m, row, col).panic
               /\ peek_at(m, row, col).panic

\* A peek_at whose row is a row of the matrix and whose column is not, on a
\* matrix with an entry and a fresh non-empty cache.
C14_Witness ==
    /\ op = "peek_at"
    /\ panicked
    /\ args[1] < pre.shape[1]
    /\ args[2] >= pre.shape[2]
    /\ pre.compressed_updated
    /\ pre.compressed_dataarray # <<>>
    /\ m = pre

\* Calling insert for each triplet in list order, stopping at the first failure.
RECURSIVE SequentialInserts(_, _)
SequentialInserts(self, triplets) ==
    IF triplets = <<>> THEN Returned(self, None)
    ELSE LET t == Head(triplets)
             out == insert(self, t[1], t[2], t[3])
         IN  IF out.panic THEN out ELSE SequentialInserts(out.self, Tail(triplets))

\* The number of triplets before the first one out of bounds for shp.
Preceding(shp, triplets) ==
    LET bad == {i \in 1..Len(triplets) :
                   OutOfBounds(shp, triplets[i][1], triplets[i][2])}
    IN  IF bad = {} THEN Len(triplets)
        ELSE (CHOOSE i \in bad : \A j \in bad : i <= j) - 1

\* The entries after the first n triplets are put into vals, the last triplet
\* naming a cell giving its value.
AfterTriplets(vals, triplets, n) ==
    LET named(k) == {i \in 1..n : <<triplets[i][1], triplets[i][2]>> = k}
        last(k) == CHOOSE i \in named(k) : \A j \in named(k) : j <= i
        keys == DOMAIN vals \cup {<<triplets[i][1], triplets[i][2]>> : i \in 1..n}
    IN  [k \in keys |-> IF named(k) # {} THEN triplets[last(k)][3] ELSE vals[k]]

\* C15: insert_triplets(list) leaves the entries that calling insert for each
\* triplet in list order leaves: the last triplet naming a cell wins, and when
\* a triplet is out of bounds the call fails with exactly the triplets before
\* it applied.
C15_InsertTripletsIsSequential ==
    (op = "insert_triplets") =>
        LET triplets == args[1]
            n == Preceding(pre.shape, triplets)
            seq == SequentialInserts(pre, triplets)
        IN  /\ panicked = seq.panic
            /\ m.values = seq.self.values
            /\ m.shape = pre.shape
            /\ panicked = (n < Len(triplets))
            /\ m.values = AfterTriplets(pre.values, triplets, n)

\* An insert_triplets that failed on its second triplet after the first one
\* changed the entries.
C15_Witness ==
    /\ op = "insert_triplets"
    /\ panicked
    /\ Len(args[1]) = 2
    /\ Preceding(pre.shape, args[1]) = 1
    /\ m.values # pre.values

\* Every key of M is a cell of M's shape.
KeysInShape(M) ==
    \A k \in DOMAIN M.values :
        /\ 0 <= k[1] /\ k[1] < M.shape[1]
        /\ 0 <= k[2] /\ k[2] < M.shape[2]

\* C16: in every reachable state every stored key (r, c) has r < nrows and
\* c < ncols, in the instance and in the matrices that create_transpose, clone
\* and add return; transposition of a non-square matrix and an insert_triplets
\* that failed part-way included.
C16_KeysInShape ==
    /\ KeysInShape(m)
    /\ KeysInShape(pre)
    /\ (op \in {"create_transpose", "clone", "add"} /\ ret # None) =>
           KeysInShape(ret[1])

\* An insert_triplets on a non-square matrix that stored an entry in the last
\* column and then failed on a triplet whose row is in bounds.
C16_Witness ==
    /\ op = "insert_triplets"
    /\ panicked
    /\ m.shape = <<2, 1>>
    /\ Len(args[1]) = 2
    /\ args[1][2][1] < m.shape[1]
    /\ args[1][2][2] >= m.shape[2]
    /\ m.values # pre.values

\* The three compressed arrays of M.
CompressedArrays(M) ==
    <<M.compressed_rowarray, M.compressed_colarray, M.compressed_dataarray>>

\* C17: peek_at and num_nonzero are pure reads: entries, shape, the three
\* compressed arrays and the freshness flag are as before the call, and
\* num_nonzero() returns the number of cells stored, fresh cache or stale.
C17_ReadsArePure ==
    /\ (op \in {"peek_at", "num_nonzero"}) => m = pre
    /\ (op = "num_nonzero") =>
           ~panicked /\ ret = Some(Cardinality(DOMAIN pre.values))
    /\ (op = "peek_at" /\ ~panicked) => ret = ValueAt(pre, args[1], args[2])
    /\ num_nonzero(m) = Cardinality(DOMAIN m.values)

\* A num_nonzero on a stale cache holding a different number of values than
\* the matrix stores cells.
C17_Witness ==
    /\ op = "num_nonzero"
    /\ ~pre.compressed_updated
    /\ pre.compressed_dataarray # <<>>
    /\ ret # None
    /\ ret[1] # Len(pre.compressed_dataarray)

\* C18: an explicit 0 is an entry: after insert(r, c, 0) peek_at(r, c) returns
\* the stored 0 and num_nonzero() counts the cell, and a cell of L + R whose
\* sum is 0 is stored in the result.
C18_ExplicitZerosRetained ==
    /\ (op = "insert" /\ ~panicked /\ args[3] = 0) =>
           /\ peek_at(m, args[1], args[2]) = Returned(m, Some(0))
           /\ StoredAt(m, args[1], args[2])
           /\ num_nonzero(m) =
                  Cardinality(DOMAIN pre.values \cup {<<args[1], args[2]>>})
    /\ (op = "add" /\ ~panicked) =>
           \A k \in DOMAIN pre.values \cup DOMAIN args[1].values :
               SumAt(pre, args[1], k) = 0 =>
                   /\ peek_at(ret[1], k[1], k[2]).ret = Some(0)
                   /\ StoredAt(ret[1], k[1], k[2])
    /\ \A k \in DOMAIN m.values :
           m.values[k] = 0 => peek_at(m, k[1], k[2]).ret = Some(0)

\* An addition in which a cell holds 1 on the left and -1 on the right.
C18_Witness ==
    /\ op = "add"
    /\ ~panicked
    /\ \E k \in DOMAIN pre.values \cap DOMAIN args[1].values :
           /\ pre.values[k] = 1
           /\ args[1].values[k] = -1
           /\ ret[1].values[k] = 0

\* C19: insert, insert_triplets, clear_at, transpose_inplace, peek_at,
\* num_nonzero and row iteration leave the three compressed arrays as they
\* were, and none of them turns the freshness flag from false to true.
C19_OnlyRebuildWritesCache ==
    (op \in {"insert", "insert_triplets", "clear_at", "transpose_inplace",
             "peek_at", "num_nonzero", "row_iter", "next"}) =>
        /\ CompressedArrays(m) = CompressedArrays(pre)
        /\ ~(~pre.compressed_updated /\ m.compressed_updated)

\* A transpose_inplace of a matrix with entries and a rebuilt, non-empty cache.
C19_Witness ==
    /\ op = "transpose_inplace"
    /\ ~panicked
    /\ pre.compressed_updated
    /\ pre.compressed_colarray # <<>>
    /\ m.values # pre.values
    /\ ~m.compressed_updated

\* C20: _update_compressed leaves entries and shape unchanged, produces the
\* same arrays for every iteration order of the store, and a second rebuild
\* with no mutation in between leaves the arrays and the flag as the first
\* produced them.
C20_RebuildIdempotent ==
    (op = "_update_compressed") =>
        /\ ~panicked
        /\ m.values = pre.values
        /\ m.shape = pre.shape
        /\ m.compressed_updated
        /\ \A ord \in IterOrders(pre.values) :
               update_compressed(pre, ord) = Returned(m, None)
        /\ \A ord \in IterOrders(m.values) :
               update_compressed(m, ord) = Returned(m, None)

\* A rebuild of a matrix storing two entries in one row, whose cache before
\* the call held something else.
C20_Witness ==
    /\ op = "_update_compressed"
    /\ DOMAIN m.values = {<<0, 0>>, <<0, 1>>}
    /\ m.values[<<0, 0>>] # m.values[<<0, 1>>]
    /\ CompressedArrays(pre) # CompressedArrays(m)
    /\ pre.compressed_dataarray # <<>>

====
